---- MODULE Spec2Model ----
(***************************************************************************)
(* A model of the stat synthesis engine of the trading card generator      *)
(* (src/Backend/main.py): the /generate handler, the simulated vision      *)
(* analysis of the prompt, and the generation of hp, rarity, name, attacks *)
(* and flavor text from the analysis with draws of the process-wide        *)
(* random generator.                                                       *)
(*                                                                         *)
(* Numbers the code holds as floats with one decimal (power multipliers,   *)
(* damage multipliers, rarity scores) are held in tenths.                  *)
(***************************************************************************)
EXTENDS Integers, Sequences, FiniteSets, TLC

VARIABLES
    prompt,     \* prompt[r]: the words of request r's prompt (str.split())
    pc,         \* pc[r]: where request r's coroutine stands
    image,      \* image[r]: index of the image_url the handler chose, 0 before
    analysis,   \* analysis[r]: the dict simulate_vision_analysis returned
    base_hp,    \* base_hp[r]: the local base_hp of generate_stats_from_analysis
    card,       \* card[r]: the CardMetadata under construction / returned
    running,    \* the request whose coroutine the event loop is running, 0 if none
    rng,        \* the process-wide generator: the outputs its state fixes
    seed,       \* the generator state the execution started from
    runNo,      \* 1: first execution, 2: the re-run from the same seed
    first       \* the first execution's outcome, kept for comparison

vars == <<prompt, pc, image, analysis, base_hp, card, running, rng, seed,
          runNo, first>>

-----------------------------------------------------------------------------
(* Bounds of the model *)

\* Number of filler words appended to a prompt
MaxPad == 2
\* Number of distinct outputs the generator can give on one draw
NumUnits == 3
\* Period of a seeded generator's output sequence
TapePeriod == 3

-----------------------------------------------------------------------------
(* Strings: str.lower, str.title, the `in` substring test, " ".join *)

Max(a, b) == IF a >= b THEN a ELSE b
Min(a, b) == IF a <= b THEN a ELSE b

\* The upper-case letters' lower case
ToLower ==
    [A |-> "a", B |-> "b", C |-> "c", D |-> "d", E |-> "e", F |-> "f", G |-> "g",
     H |-> "h", I |-> "i", J |-> "j", K |-> "k", L |-> "l", M |-> "m", N |-> "n",
     O |-> "o", P |-> "p", Q |-> "q", R |-> "r", S |-> "s", T |-> "t", U |-> "u",
     V |-> "v", W |-> "w", X |-> "x", Y |-> "y", Z |-> "z"]

\* The lower-case letters' upper case
ToUpper ==
    [a |-> "A", b |-> "B", c |-> "C", d |-> "D", e |-> "E", f |-> "F", g |-> "G",
     h |-> "H", i |-> "I", j |-> "J", k |-> "K", l |-> "L", m |-> "M", n |-> "N",
     o |-> "O", p |-> "P", q |-> "Q", r |-> "R", s |-> "S", t |-> "T", u |-> "U",
     v |-> "V", w |-> "W", x |-> "X", y |-> "Y", z |-> "Z"]

\* One character in lower case
LowerChar(c) == IF c \in DOMAIN ToLower THEN ToLower[c] ELSE c

\* One character in upper case
UpperChar(c) == IF c \in DOMAIN ToUpper THEN ToUpper[c] ELSE c

RECURSIVE Lower(_)
\* str.lower()
Lower(s) ==
    IF Len(s) = 0 THEN ""
    ELSE LowerChar(SubSeq(s, 1, 1)) \o Lower(SubSeq(s, 2, Len(s)))

\* str.title() of a single lower-case word
Title(s) ==
    IF Len(s) = 0 THEN ""
    ELSE UpperChar(SubSeq(s, 1, 1)) \o Lower(SubSeq(s, 2, Len(s)))

\* keyword in text
Contains(text, keyword) ==
    \E i \in 1..(Len(text) - Len(keyword) + 1) :
        SubSeq(text, i, i + Len(keyword) - 1) = keyword

\* any(keyword in text for keyword in keywords)
ContainsAny(text, keywords) ==
    \E k \in 1..Len(keywords) : Contains(text, keywords[k])

RECURSIVE Join(_)
\* The prompt string whose words are `words`
Join(words) ==
    IF Len(words) = 0 THEN ""
    ELSE IF Len(words) = 1 THEN words[1]
    ELSE words[1] \o " " \o Join(Tail(words))

\* prompt.lower()
PromptLower(words) == Lower(Join(words))

-----------------------------------------------------------------------------
(* The keyword tables, in the order the dicts are written *)

\* size_indicators, multipliers in tenths
SizeIndicators ==
    << <<"tiny", 3>>, <<"small", 5>>, <<"young", 6>>, <<"medium", 7>>,
       <<"large", 12>>, <<"huge", 15>>, <<"massive", 18>>, <<"giant", 20>>,
       <<"ancient", 16>>, <<"elder", 14>>, <<"baby", 4>>, <<"mighty", 13>> >>

\* The default power_multiplier 1.0, in tenths
DefaultPower == 10

ElementKeywords ==
    << <<"fire",  <<"fire", "flame", "lava", "magma", "ember", "phoenix", "dragon">> >>,
       <<"water", <<"water", "ice", "frost", "ocean", "sea", "aquatic", "whale">> >>,
       <<"earth", <<"rock", "stone", "earth", "mountain", "crystal", "gem">> >>,
       <<"air",   <<"wind", "storm", "cloud", "lightning", "thunder", "eagle">> >>,
       <<"dark",  <<"shadow", "dark", "void", "nightmare", "demon", "evil">> >>,
       <<"light", <<"light", "holy", "angel", "divine", "celestial", "bright">> >> >>

ComplexityKeywords == <<"legendary", "ancient", "mythical">>

CreatureTypes ==
    << <<"dragon",    <<"dragon", "drake", "wyrm">> >>,
       <<"wolf",      <<"wolf", "dire wolf", "fenrir">> >>,
       <<"bird",      <<"eagle", "phoenix", "hawk", "raven">> >>,
       <<"beast",     <<"tiger", "lion", "bear", "panther">> >>,
       <<"elemental", <<"elemental", "spirit", "wisp">> >>,
       <<"demon",     <<"demon", "devil", "fiend">> >>,
       <<"angel",     <<"angel", "seraph", "cherub">> >>,
       <<"undead",    <<"skeleton", "zombie", "lich", "ghost">> >> >>

\* The four `if any(...)` tests of the attack style detection, in order
CombatStyleKeywords ==
    << <<"slashing", <<"claws", "talons", "sharp">> >>,
       <<"fire",     <<"fire", "flame", "burning">> >>,
       <<"magic",    <<"magic", "spell", "enchanted">> >>,
       <<"biting",   <<"bite", "teeth", "fangs">> >> >>

-----------------------------------------------------------------------------
(* simulate_vision_analysis and extract_creature_characteristics *)

\* The first entry of an ordered table whose test holds, 0 if none
FirstIndex(tests) ==
    IF \E i \in 1..Len(tests) : tests[i]
    THEN CHOOSE i \in 1..Len(tests) : tests[i] /\ \A j \in 1..(i - 1) : ~tests[j]
    ELSE 0

\* PowerMultiplier without the break: the last match wins
PowerMultiplierLastMatch(text) ==
    LET Hit(i) == Contains(text, SizeIndicators[i][1])
        hits == {i \in 1..Len(SizeIndicators) : Hit(i)}
    IN  IF hits = {} THEN DefaultPower
        ELSE SizeIndicators[CHOOSE i \in hits : \A j \in hits : j <= i][2]

\* The for/break loop over size_indicators
PowerMultiplier(text) ==
    LET i == FirstIndex([k \in 1..Len(SizeIndicators) |->
                             Contains(text, SizeIndicators[k][1])])
    IN  IF i = 0 THEN DefaultPower ELSE SizeIndicators[i][2]

\* DetectedElement without the break: the last match wins
DetectedElementLastMatch(text) ==
    LET Hit(i) == ContainsAny(text, ElementKeywords[i][2])
        hits == {i \in 1..Len(ElementKeywords) : Hit(i)}
    IN  IF hits = {} THEN "Fire"
        ELSE Title(ElementKeywords[CHOOSE i \in hits : \A j \in hits : j <= i][1])

\* The for/break loop over element_keywords
DetectedElement(text) ==
    LET i == FirstIndex([k \in 1..Len(ElementKeywords) |->
                             ContainsAny(text, ElementKeywords[k][2])])
    IN  IF i = 0 THEN "Fire" ELSE Title(ElementKeywords[i][1])

\* len(prompt.split()) + (2 if any(...) else 0)
ComplexityScore(words, text) ==
    Len(words) + (IF ContainsAny(text, ComplexityKeywords) THEN 2 ELSE 0)

\* The for/break loop over creature_types
DetectedType(text) ==
    LET i == FirstIndex([k \in 1..Len(CreatureTypes) |->
                             ContainsAny(text, CreatureTypes[k][2])])
    IN  IF i = 0 THEN "beast" ELSE CreatureTypes[i][1]

RECURSIVE StylesFrom(_, _)
\* The styles appended by the tests from the i-th on
StylesFrom(text, i) ==
    IF i > Len(CombatStyleKeywords) THEN <<>>
    ELSE (IF ContainsAny(text, CombatStyleKeywords[i][2])
          THEN <<CombatStyleKeywords[i][1]>> ELSE <<>>)
         \o StylesFrom(text, i + 1)

\* CombatStyles without the default: combat_styles
CombatStylesNoDefault(text) == StylesFrom(text, 1)

\* combat_styles or ["physical"]
CombatStyles(text) ==
    LET styles == StylesFrom(text, 1)
    IN  IF styles = <<>> THEN <<"physical">> ELSE styles

\* [word for word in prompt_lower.split() if len(word) > 4]
Descriptors(words) ==
    LET Long(w) == Len(w) > 4
    IN  SelectSeq([i \in 1..Len(words) |-> Lower(words[i])], Long)

ExtractCreatureCharacteristics(words) ==
    LET text == PromptLower(words)
    IN  [creature_type |-> DetectedType(text),
         combat_styles |-> CombatStyles(text),
         descriptors   |-> Descriptors(words)]

VisionAnalysis(words) ==
    LET text == PromptLower(words)
    IN  [apparent_power_level      |-> PowerMultiplier(text),
         detected_element          |-> DetectedElement(text),
         complexity_score          |-> ComplexityScore(words, text),
         creature_characteristics  |-> ExtractCreatureCharacteristics(words)]

-----------------------------------------------------------------------------
(* The process-wide random generator (module random)                       *)
(*                                                                         *)
(* One draw gives a unit u, standing for random.random() = u/12.  The      *)
(* generator is a sequence of units: empty when it was seeded from the     *)
(* operating system's entropy (any unit may come next), and otherwise the  *)
(* period of the outputs its state fixes, rotated by each draw.            *)

Units == {(k * 10) \div (NumUnits - 1) : k \in 0..(NumUnits - 1)}

\* The seeded generator states
Tapes == [1..TapePeriod -> Units]

\* Outputs of a generator that is reseeded from entropy at each call site:
\* the first output is any unit, the rest follow the state
OutputsUnseeded(g, n) ==
    IF g = <<>> THEN [1..n -> Units]
    ELSE {[i \in 1..n |-> IF i = 1 THEN u ELSE g[((i - 1) % Len(g)) + 1]] :
            u \in Units}

\* The sequences of n outputs generator state g can give
Outputs(g, n) ==
    IF g = <<>> THEN [1..n -> Units]
    ELSE {[i \in 1..n |-> g[((i - 1) % Len(g)) + 1]]}

\* The generator state after n draws from g
Drawn(g, n) ==
    IF g = <<>> THEN g
    ELSE [i \in 1..Len(g) |-> g[((i - 1 + n) % Len(g)) + 1]]

\* random.random() < tenths/10
RandomBelow(u, tenths) == u * 10 < tenths * 12

\* random.randint(a, b)
RandInt(u, a, b) == a + (u * (b - a + 1)) \div 12

\* random.choice(seq)
Choice(u, seq) == seq[1 + (u * Len(seq)) \div 12]

-----------------------------------------------------------------------------
(* generate_stats_from_analysis: hp and rarity *)

\* (base_hp, power level) whose double-precision product lies just below
\* the integer the exact product is: 90 * 0.7 = 62.99999999999999
RoundsBelow == {<<90, 7>>, <<45, 14>>, <<85, 14>>, <<90, 14>>}

\* int(base_hp * power_level), power_level in tenths
IntProduct(base, tenths) ==
    (base * tenths) \div 10 - (IF <<base, tenths>> \in RoundsBelow THEN 1 ELSE 0)

\* base_hp from the coin and the range draw
BaseHp(d) ==
    IF RandomBelow(d[1], 8) THEN RandInt(d[2], 40, 100)
    ELSE RandInt(d[2], 100, 150)

\* FinalHp without the upper clamp: max(20, int(base_hp * power_level))
FinalHpUncapped(base, power_level) == Max(20, IntProduct(base, power_level))

\* max(20, min(150, int(base_hp * power_level)))
FinalHp(base, power_level) == Max(20, Min(150, IntProduct(base, power_level)))

\* complexity + (power_level * 2), in tenths
RarityScore(complexity, power_level) == 10 * complexity + 2 * power_level

\* Rarity with the Epic and Rare tests in the wrong order
RarityMisordered(score) ==
    IF score >= 120 THEN "Legendary"
    ELSE IF score >= 60 THEN "Rare"
    ELSE IF score >= 90 THEN "Epic"
    ELSE IF score >= 40 THEN "Uncommon"
    ELSE "Common"

\* The if/elif chain over rarity_score
Rarity(score) ==
    IF score >= 120 THEN "Legendary"
    ELSE IF score >= 90 THEN "Epic"
    ELSE IF score >= 60 THEN "Rare"
    ELSE IF score >= 40 THEN "Uncommon"
    ELSE "Common"

-----------------------------------------------------------------------------
(* generate_creature_name *)

ElementPrefixes ==
    [Fire  |-> <<"Flame", "Ember", "Blaze", "Inferno", "Cinder">>,
     Water |-> <<"Frost", "Ice", "Wave", "Tide", "Storm">>,
     Earth |-> <<"Stone", "Rock", "Crystal", "Granite", "Iron">>,
     Air   |-> <<"Wind", "Storm", "Thunder", "Lightning", "Gale">>,
     Dark  |-> <<"Shadow", "Void", "Night", "Dread", "Gloom">>,
     Light |-> <<"Dawn", "Radiant", "Celestial", "Divine", "Bright">>]

TypeSuffixes ==
    [dragon    |-> <<"drake", "wyrm", "wing", "scale", "claw">>,
     wolf      |-> <<"fang", "howl", "pack", "moon", "wild">>,
     bird      |-> <<"wing", "talon", "soar", "sky", "flight">>,
     beast     |-> <<"claw", "roar", "hunt", "prowl", "fierce">>,
     elemental |-> <<"spirit", "essence", "force", "energy", "core">>,
     demon     |-> <<"spawn", "fiend", "terror", "doom", "bane">>,
     angel     |-> <<"wing", "light", "grace", "holy", "divine">>,
     undead    |-> <<"bone", "soul", "wraith", "specter", "shade">>]

\* dict.get(key, default)
Get(dict, key, default) == IF key \in DOMAIN dict THEN dict[key] ELSE default

\* f"{prefix}{suffix}"
CreatureName(characteristics, element, d) ==
    LET prefix == Choice(d[1], Get(ElementPrefixes, element, <<"Ancient">>))
        suffix == Choice(d[2], Get(TypeSuffixes, characteristics.creature_type,
                                   <<"beast">>))
    IN  prefix \o suffix

-----------------------------------------------------------------------------
(* generate_contextual_attacks *)

AttackTemplates ==
    [Fire  |-> [slashing |-> << <<"Flame Claw", 35, "Slashes with burning claws">> >>,
                fire     |-> << <<"Inferno Blast", 45, "Unleashes a torrent of flames">> >>,
                magic    |-> << <<"Fire Storm", 40, "Conjures a magical fire storm">> >>,
                biting   |-> << <<"Ember Bite", 30, "Bites with flame-wreathed fangs">> >>],
     Water |-> [slashing |-> << <<"Ice Claw", 32, "Strikes with frozen talons">> >>,
                fire     |-> << <<"Steam Burst", 38, "Superheated water explosion">> >>,
                magic    |-> << <<"Tidal Wave", 42, "Summons a crushing wave">> >>,
                biting   |-> << <<"Frost Bite", 28, "Freezing bite that slows enemies">> >>],
     Earth |-> [slashing |-> << <<"Stone Claw", 38, "Cuts with razor-sharp stone">> >>,
                magic    |-> << <<"Earthquake", 50, "Shakes the ground violently">> >>,
                physical |-> << <<"Boulder Throw", 45, "Hurls massive rocks">> >>],
     Air   |-> [slashing |-> << <<"Wind Blade", 35, "Cuts with compressed air">> >>,
                magic    |-> << <<"Lightning Strike", 48, "Calls down electric fury">> >>,
                physical |-> << <<"Gust Slam", 40, "Powerful wind attack">> >>],
     Dark  |-> [slashing |-> << <<"Shadow Claw", 36, "Strikes from darkness">> >>,
                magic    |-> << <<"Void Drain", 25, "Drains life force from enemy">> >>,
                physical |-> << <<"Terror Strike", 42, "Frightening physical assault">> >>],
     Light |-> [slashing |-> << <<"Radiant Slash", 38, "Cuts with holy light">> >>,
                magic    |-> << <<"Divine Ray", 44, "Blasts with pure light">> >>,
                physical |-> << <<"Blessing Strike", 35, "Heals self while attacking">> >>]]

\* The default of the style lookup
GenericAttacks == << <<"Strike", 30, "Basic attack">> >>

\* UtilityAttacks healing a quarter: f"Restores {hp//4} HP"
UtilityAttacksQuarter(hp) ==
    << <<"Regenerate", 0, "Restores " \o ToString(hp \div 4) \o " HP">>,
       <<"Fortify", 0, "Reduces next attack by 50%">>,
       <<"Power Up", 0, "Next attack deals double damage">> >>

\* utility_attacks, in the order of list(utility_attacks.keys())
UtilityAttacks(hp) ==
    << <<"Regenerate", 0, "Restores " \o ToString(hp \div 5) \o " HP">>,
       <<"Fortify", 0, "Reduces next attack by 50%">>,
       <<"Power Up", 0, "Next attack deals double damage">> >>

\* damage_multiplier, in tenths
DamageMultiplier ==
    [Common |-> 9, Uncommon |-> 10, Rare |-> 11, Epic |-> 12, Legendary |-> 13]

Attack(name, damage, description) ==
    [name |-> name, damage |-> damage, description |-> description]

\* attack_templates.get(element, attack_templates["Fire"])
ElementAttacks(element) == Get(AttackTemplates, element, AttackTemplates.Fire)

\* StyleAttacks without the physical fallback:
\* element_attacks.get(primary_style, [("Strike", 30, "Basic attack")])
StyleAttacksNoPhysical(element_attacks, primary_style) ==
    Get(element_attacks, primary_style, GenericAttacks)

\* element_attacks.get(primary_style, element_attacks.get("physical", [...]))
StyleAttacks(element_attacks, primary_style) ==
    Get(element_attacks, primary_style,
        Get(element_attacks, "physical", GenericAttacks))

\* max(15, int(base_damage * damage_multiplier))
PrimaryDamage(base_damage, rarity) ==
    Max(15, (base_damage * DamageMultiplier[rarity]) \div 10)

\* max(10, int(base_damage * damage_multiplier * 0.8))
SecondaryDamage(base_damage, rarity) ==
    Max(10, (base_damage * DamageMultiplier[rarity] * 8) \div 100)

\* [s for s in combat_styles[1:]] if len(combat_styles) > 1 else ["magic"]
SecondaryStyles(combat_styles) ==
    IF Len(combat_styles) > 1 THEN Tail(combat_styles) ELSE <<"magic">>

\* element_attacks.get(secondary_style, style_attacks)
SecondaryAttacks(element_attacks, secondary_style, style_attacks) ==
    Get(element_attacks, secondary_style, style_attacks)

\* The attacks appended by the primary block, with the draws it made
PrimaryBlock(style_attacks, rarity, d) ==
    IF style_attacks # <<>>
    THEN LET t == Choice(d[1], style_attacks)
         IN  [attacks |-> <<Attack(t[1], PrimaryDamage(t[2], rarity), t[3])>>,
              draws   |-> 1]
    ELSE [attacks |-> <<>>, draws |-> 0]

\* The attacks appended by the secondary block, with the draws it made
SecondaryBlock(combat_styles, element_attacks, style_attacks, hp, rarity, d) ==
    IF RandomBelow(d[1], 7)
    THEN LET secondary_styles == SecondaryStyles(combat_styles)
             secondary_attacks ==
                 SecondaryAttacks(element_attacks, secondary_styles[1], style_attacks)
         IN  IF secondary_styles # <<>> /\ secondary_attacks # <<>>
             THEN LET t == Choice(d[2], secondary_attacks)
                  IN  [attacks |-> <<Attack(t[1], SecondaryDamage(t[2], rarity), t[3])>>,
                       draws   |-> 2]
             ELSE [attacks |-> <<>>, draws |-> 1]
    ELSE LET t == Choice(d[2], UtilityAttacks(hp))
         IN  [attacks |-> <<Attack(t[1], t[2], t[3])>>, draws |-> 2]

\* EnsureTwo cutting one short: return attacks[:1]
EnsureTwoCutShort(attacks) == SubSeq(attacks, 1, Min(1, Len(attacks)))

\* if len(attacks) < 2: append Basic Strike; return attacks[:2]
EnsureTwo(attacks) ==
    LET filled == IF Len(attacks) < 2
                  THEN Append(attacks, Attack("Basic Strike", 25,
                                              "A simple but effective attack"))
                  ELSE attacks
    IN  SubSeq(filled, 1, Min(2, Len(filled)))

\* The attacks returned and the number of draws made, on the outputs d
ContextualAttacks(characteristics, element, hp, rarity, d) ==
    LET combat_styles == characteristics.combat_styles
        primary_style == IF combat_styles # <<>> THEN combat_styles[1]
                         ELSE "physical"
        element_attacks == ElementAttacks(element)
        style_attacks == StyleAttacks(element_attacks, primary_style)
        p == PrimaryBlock(style_attacks, rarity, d)
        s == SecondaryBlock(combat_styles, element_attacks, style_attacks, hp,
                            rarity, SubSeq(d, p.draws + 1, Len(d)))
    IN  [attacks |-> EnsureTwo(p.attacks \o s.attacks),
         draws   |-> p.draws + s.draws]

-----------------------------------------------------------------------------
(* generate_flavor_text *)

FlavorTemplates ==
    [dragon    |-> <<"Ancient and wise, this dragon commands respect from all who encounter it.",
                     "Born from the heart of a volcano, its rage burns eternal.",
                     "Legends speak of its hoard hidden deep in mountain caves.">>,
     wolf      |-> <<"A lone hunter that stalks its prey through moonlit forests.",
                     "Leader of the pack, feared by all woodland creatures.",
                     "Its howl echoes through the night, calling its kin to hunt.">>,
     bird      |-> <<"Soaring high above the clouds, it surveys its domain below.",
                     "Its keen eyes miss nothing as it patrols the skies.",
                     "Graceful in flight, deadly when it strikes.">>,
     beast     |-> <<"A fierce predator that rules its territory with strength.",
                     "Its roar can be heard for miles, warning others to stay away.",
                     "Perfectly adapted to survive in the harshest conditions.">>,
     elemental |-> <<"A manifestation of pure elemental energy given form.",
                     "It exists between the physical and spiritual realms.",
                     "Ancient magic binds this creature to the natural world.">>]

FlavorText(characteristics, d) ==
    Choice(d[1], Get(FlavorTemplates, characteristics.creature_type,
                     FlavorTemplates.beast))

-----------------------------------------------------------------------------
(* The prompts and the requests *)

\* The requests one execution serves
Reqs == {1, 2}

\* FALLBACK_IMAGES has three entries; no local image is uploaded
FallbackImages == 3

\* k filler words
Pad(k) == [i \in 1..k |-> "xyz"]

\* Leading words that set the size and the word count of a keyword prompt
Openers == {<<>>, <<"tiny">>, <<"large", "xyz">>, <<"Giant", "legendary">>,
            <<"Giant", "legendary", "xyz", "xyz">>}

ElementWords == {<<>>, <<"lava">>, <<"ice">>, <<"stone">>, <<"storm">>,
                 <<"shadow">>, <<"holy">>}

StyleWords == {<<>>, <<"claws">>, <<"burning">>, <<"spell">>, <<"fangs">>,
               <<"spell", "claws">>, <<"claws", "burning">>, <<"fangs", "spell">>}

\* Prompts of an optional size, element and style keywords
KeywordPrompts ==
    {o \o e \o s : o \in Openers, e \in ElementWords, s \in StyleWords} \ {<<>>}

\* One phrase per size keyword
SizePhrases == {<<SizeIndicators[i][1], "wolf">> : i \in 1..Len(SizeIndicators)}

\* The phrases of the scenarios and phrases with keywords of several tables
ScenarioPhrases ==
    { <<"a", "tiny", "fire", "dragon">>,
      <<"xyz", "qqq">>,
      <<"legendary", "ancient", "massive", "dragon">>,
      <<"the", "elder", "legendary", "ancient", "massive", "dragon", "king">>,
      <<"an", "ancient", "or", "legendary", "ancient", "massive", "dragon", "giant">>,
      <<"tiny", "legendary", "ancient", "massive", "dragon", "of", "the", "void">>,
      <<"shadow", "ice">>, <<"ice", "shadow">>,
      <<"holy", "lightning">>, <<"bright", "stone", "flame">>,
      <<"Mythical", "SEA", "demon">>, <<"medium", "bear">>,
      <<"Legendary", "knight">>, <<"huge", "stone", "golem">>,
      <<"giant", "ancient", "wyrm">>,
      <<"the", "giant", "legendary", "frost", "wolf", "fenrir">> }

\* A phrase followed by up to MaxPad filler words
PaddedPrompts ==
    {p \o Pad(k) : p \in SizePhrases \cup ScenarioPhrases, k \in 0..MaxPad}

\* The prompts a request may carry
Prompts == KeywordPrompts \cup PaddedPrompts

\* CardMetadata with every field None
NoCard ==
    [name |-> "", hp |-> 0, type |-> "", rarity |-> "", flavorText |-> "",
     attacks |-> <<>>]

NoAnalysis ==
    [apparent_power_level |-> 0, detected_element |-> "", complexity_score |-> 0,
     creature_characteristics |->
         [creature_type |-> "", combat_styles |-> <<>>, descriptors |-> <<>>]]

NoFirst == [card |-> [r \in Reqs |-> NoCard], rng |-> <<>>]

-----------------------------------------------------------------------------
(* The coroutines.  The event loop runs one coroutine at a time, from one  *)
(* await to the next: `running` names the request inside the synchronous   *)
(* part that follows simulate_vision_analysis's sleep.                     *)

\* POST /generate up to the await in simulate_processing_time
GenerateImage(r) ==
    /\ pc[r] = "start"
    /\ running = 0
    /\ \/ /\ prompt[r] = <<>>        \* not request.prompt.strip(): HTTP 400
          /\ pc' = [pc EXCEPT ![r] = "rejected"]
          /\ UNCHANGED rng
       \/ /\ prompt[r] # <<>>
          /\ \E d \in Outputs(rng, 1) :   \* random.uniform(min_time, max_time)
                rng' = Drawn(rng, 1)
          /\ pc' = [pc EXCEPT ![r] = "gen_wait"]
    /\ UNCHANGED <<prompt, image, analysis, base_hp, card, running, seed, runNo,
                   first>>

\* random.choice(available_images), then analyze_image_and_generate_stats up
\* to the await in simulate_vision_analysis
SelectImage(r) ==
    /\ pc[r] = "gen_wait"
    /\ running = 0
    /\ \E d \in Outputs(rng, 1) :
          /\ image' = [image EXCEPT ![r] = Choice(d[1], [i \in 1..FallbackImages |-> i])]
          /\ rng' = Drawn(rng, 1)
    /\ pc' = [pc EXCEPT ![r] = "vision_wait"]
    /\ UNCHANGED <<prompt, analysis, base_hp, card, running, seed, runNo, first>>

\* analyze_image_and_generate_stats called on its own, up to the await in
\* simulate_vision_analysis
AnalyzeImage(r) ==
    /\ pc[r] = "call"
    /\ running = 0
    /\ pc' = [pc EXCEPT ![r] = "vision_wait"]
    /\ UNCHANGED <<prompt, image, analysis, base_hp, card, running, rng, seed,
                   runNo, first>>

\* simulate_vision_analysis after its sleep
SimulateVisionAnalysis(r) ==
    /\ pc[r] = "vision_wait"
    /\ running = 0
    /\ analysis' = [analysis EXCEPT ![r] = VisionAnalysis(prompt[r])]
    /\ pc' = [pc EXCEPT ![r] = "stats"]
    /\ running' = r
    /\ UNCHANGED <<prompt, image, base_hp, card, rng, seed, runNo, first>>

\* generate_stats_from_analysis: final_hp and rarity
GenerateStats(r) ==
    /\ pc[r] = "stats"
    /\ running = r
    /\ \E d \in Outputs(rng, 2) :
          LET a == analysis[r]
              base == BaseHp(d)
          IN  /\ base_hp' = [base_hp EXCEPT ![r] = base]
              /\ card' = [card EXCEPT
                     ![r].hp = FinalHp(base, a.apparent_power_level),
                     ![r].rarity = Rarity(RarityScore(a.complexity_score,
                                                      a.apparent_power_level))]
    /\ rng' = Drawn(rng, 2)
    /\ pc' = [pc EXCEPT ![r] = "name"]
    /\ UNCHANGED <<prompt, image, analysis, running, seed, runNo, first>>

\* generate_creature_name
GenerateCreatureName(r) ==
    /\ pc[r] = "name"
    /\ running = r
    /\ \E d \in Outputs(rng, 2) :
          card' = [card EXCEPT ![r].name =
                      CreatureName(analysis[r].creature_characteristics,
                                   analysis[r].detected_element, d)]
    /\ rng' = Drawn(rng, 2)
    /\ pc' = [pc EXCEPT ![r] = "attacks"]
    /\ UNCHANGED <<prompt, image, analysis, base_hp, running, seed, runNo, first>>

\* generate_contextual_attacks
GenerateContextualAttacks(r) ==
    /\ pc[r] = "attacks"
    /\ running = r
    /\ \E d \in Outputs(rng, 3) :
          LET res == ContextualAttacks(analysis[r].creature_characteristics,
                                       analysis[r].detected_element,
                                       card[r].hp, card[r].rarity, d)
          IN  /\ card' = [card EXCEPT ![r].attacks = res.attacks]
              /\ rng' = Drawn(rng, res.draws)
    /\ pc' = [pc EXCEPT ![r] = "flavor"]
    /\ UNCHANGED <<prompt, image, analysis, base_hp, running, seed, runNo, first>>

\* generate_flavor_text and the CardMetadata returned
GenerateFlavorText(r) ==
    /\ pc[r] = "flavor"
    /\ running = r
    /\ \E d \in Outputs(rng, 1) :
          card' = [card EXCEPT
                      ![r].flavorText =
                          FlavorText(analysis[r].creature_characteristics, d),
                      ![r].type = analysis[r].detected_element]
    /\ rng' = Drawn(rng, 1)
    /\ pc' = [pc EXCEPT ![r] = "done"]
    /\ running' = 0
    /\ UNCHANGED <<prompt, image, analysis, base_hp, seed, runNo, first>>

\* Every request of the execution has returned
Finished == \A r \in Reqs : pc[r] \in {"done", "rejected", "absent"}

\* The same requests are served again with the generator put back to its
\* seed (random.seed with the same value), entered at `entry`
Rerun(entry) ==
    /\ runNo = 1
    /\ seed # <<>>
    /\ Finished
    /\ first' = [card |-> card, rng |-> rng]
    /\ runNo' = 2
    /\ rng' = seed
    /\ pc' = [r \in Reqs |-> IF pc[r] = "absent" THEN "absent" ELSE entry]
    /\ image' = [r \in Reqs |-> 0]
    /\ analysis' = [r \in Reqs |-> NoAnalysis]
    /\ base_hp' = [r \in Reqs |-> 0]
    /\ card' = [r \in Reqs |-> NoCard]
    /\ UNCHANGED <<prompt, running, seed>>

-----------------------------------------------------------------------------
(* Specifications *)

InitState(prompts, entries, g) ==
    /\ prompt = prompts
    /\ pc = entries
    /\ image = [r \in Reqs |-> 0]
    /\ analysis = [r \in Reqs |-> NoAnalysis]
    /\ base_hp = [r \in Reqs |-> 0]
    /\ card = [r \in Reqs |-> NoCard]
    /\ running = 0
    /\ rng = g
    /\ seed = g
    /\ runNo = 1
    /\ first = NoFirst

\* The synthesis pipeline
Pipeline(r) ==
    \/ AnalyzeImage(r)
    \/ SimulateVisionAnalysis(r)
    \/ GenerateStats(r)
    \/ GenerateCreatureName(r)
    \/ GenerateContextualAttacks(r)
    \/ GenerateFlavorText(r)

\* One call of analyze_image_and_generate_stats, the generator seeded from
\* the operating system
Init ==
    \E p \in Prompts :
        InitState([r \in Reqs |-> IF r = 1 THEN p ELSE <<>>],
                  [r \in Reqs |-> IF r = 1 THEN "call" ELSE "absent"], <<>>)

Next == \E r \in Reqs : Pipeline(r)

Spec == Init /\ [][Next]_vars

\* One call of analyze_image_and_generate_stats from a seeded generator, and
\* the same call again from the same seed
InitSeeded ==
    \E p \in ScenarioPhrases, g \in Tapes :
        InitState([r \in Reqs |-> IF r = 1 THEN p ELSE <<>>],
                  [r \in Reqs |-> IF r = 1 THEN "call" ELSE "absent"], g)

NextSeeded == (\E r \in Reqs : Pipeline(r)) \/ Rerun("call")

SpecSeeded == InitSeeded /\ [][NextSeeded]_vars

\* The generator states that give the same output on every draw
FlatTapes == {[i \in 1..TapePeriod |-> u] : u \in Units}

\* Two calls of analyze_image_and_generate_stats in one process
InitPair ==
    \E ps \in [Reqs -> ScenarioPhrases], g \in FlatTapes :
        InitState(ps, [r \in Reqs |-> "call"], g)

SpecPair == InitPair /\ [][Next]_vars

\* The prompts of concurrent requests
ConcurrentPrompts == {<<>>, <<"a", "tiny", "fire", "dragon">>, <<"xyz", "qqq">>}

\* Two concurrent POST /generate requests sharing a seeded generator, and the
\* same requests again from the same seed
InitConcurrent ==
    \E ps \in [Reqs -> ConcurrentPrompts], g \in Tapes :
        InitState(ps, [r \in Reqs |-> "start"], g)

NextConcurrent ==
    \/ \E r \in Reqs :
          \/ GenerateImage(r)
          \/ SelectImage(r)
          \/ SimulateVisionAnalysis(r)
          \/ GenerateStats(r)
          \/ GenerateCreatureName(r)
          \/ GenerateContextualAttacks(r)
          \/ GenerateFlavorText(r)
    \/ Rerun("start")

SpecConcurrent == InitConcurrent /\ [][NextConcurrent]_vars

-----------------------------------------------------------------------------
(* Properties *)

\* CREATURE_TYPES and RARITIES
ElementNames == <<"Fire", "Water", "Earth", "Air", "Dark", "Light">>
Rarities == <<"Common", "Uncommon", "Rare", "Epic", "Legendary">>

\* Request r has computed its analysis / hp and rarity / attacks
Analysed(r) == pc[r] \in {"stats", "name", "attacks", "flavor", "done"}
HasStats(r) == pc[r] \in {"name", "attacks", "flavor", "done"}
HasAttacks(r) == pc[r] \in {"flavor", "done"}

\* C1: the hp of every card is max(20, min(150, int(base_hp * power
\* multiplier))), the product taken as the code takes it, with base_hp in
\* 40..150: so 20 <= hp <= 150, and base_hp 100 with multiplier 1.5 gives 150.
C1_HpClamped ==
    \A r \in Reqs : HasStats(r) =>
        LET hp == card[r].hp
            power == analysis[r].apparent_power_level
            q == IntProduct(base_hp[r], power)
        IN  /\ hp \in 20..150
            /\ base_hp[r] \in 40..150
            /\ power \in {SizeIndicators[i][2] : i \in 1..Len(SizeIndicators)}
                         \cup {10}
            /\ q < 20 => hp = 20
            /\ q > 150 => hp = 150
            /\ q \in 20..150 => hp = q
            /\ (base_hp[r] = 100 /\ power = 15) => hp = 150

\* C1 witness: Scenario 4, base_hp 100 with "huge" clamped to 150
C1_Witness ==
    /\ pc[1] = "done"
    /\ base_hp[1] = 100
    /\ analysis[1].apparent_power_level = 15
    /\ card[1].hp = 150

\* C2: generate_contextual_attacks returns exactly two Attack records
C2_TwoAttacks ==
    \A r \in Reqs : HasAttacks(r) =>
        /\ Len(card[r].attacks) = 2
        /\ \A i \in 1..2 :
              /\ DOMAIN card[r].attacks[i] = {"name", "damage", "description"}
              /\ card[r].attacks[i].name # ""
              /\ card[r].attacks[i].damage \in Nat

\* C2 witness: a card returned with an offensive first and second attack
C2_Witness ==
    /\ pc[1] = "done"
    /\ Len(card[1].attacks) = 2
    /\ card[1].attacks[1].damage > 0
    /\ card[1].attacks[2].damage > 0
    /\ Len(analysis[1].creature_characteristics.combat_styles) = 2

\* The number of thresholds 4, 6, 9, 12 a rarity score (in tenths) reaches
Steps(score) == Cardinality({t \in {40, 60, 90, 120} : score >= t})

\* The place of a rarity in Common < Uncommon < Rare < Epic < Legendary
Rank(rarity) == CHOOSE i \in 1..Len(Rarities) : Rarities[i] = rarity

ScoreOf(r) ==
    10 * analysis[r].complexity_score + 2 * analysis[r].apparent_power_level

\* C3: rarity is a non-decreasing step function of complexity_score +
\* 2 * power_multiplier with the steps at 4, 6, 9 and 12
C3_RarityMonotonic ==
    /\ \A r \in Reqs : HasStats(r) =>
          /\ card[r].rarity \in {Rarities[i] : i \in 1..Len(Rarities)}
          /\ Rank(card[r].rarity) = 1 + Steps(ScoreOf(r))
    /\ \A r1, r2 \in Reqs :
          (HasStats(r1) /\ HasStats(r2) /\ ScoreOf(r1) <= ScoreOf(r2))
              => Rank(card[r1].rarity) <= Rank(card[r2].rarity)

\* C3 witness: two cards, the first of a lower score and a lower rarity, the
\* second with a score of exactly 9
C3_Witness ==
    /\ pc[1] = "done" /\ pc[2] = "done"
    /\ ScoreOf(1) < ScoreOf(2)
    /\ ScoreOf(2) = 90
    /\ card[1].rarity = "Rare"
    /\ card[2].rarity = "Epic"

C5_OrderIndependent ==
    (runNo = 2 /\ Finished) => \A r \in Reqs : card[r] = first.card[r]

\* The keywords of the archetype, element, combat style and size tables
Keywords ==
    {SizeIndicators[i][1] : i \in 1..Len(SizeIndicators)}
    \cup UNION {{ElementKeywords[i][2][k] : k \in 1..Len(ElementKeywords[i][2])}
                : i \in 1..Len(ElementKeywords)}
    \cup UNION {{CreatureTypes[i][2][k] : k \in 1..Len(CreatureTypes[i][2])}
                : i \in 1..Len(CreatureTypes)}
    \cup UNION {{CombatStyleKeywords[i][2][k] : k \in 1..Len(CombatStyleKeywords[i][2])}
                : i \in 1..Len(CombatStyleKeywords)}

\* The prompts that contain none of them
PlainPrompts ==
    {p \in Prompts : \A k \in Keywords : ~Contains(PromptLower(p), k)}

\* Request r's next step can be taken: its coroutine waits and no other
\* runs, or it is the one running
CanStep(r) ==
    IF pc[r] \in {"call", "vision_wait"} THEN running = 0
    ELSE /\ pc[r] \in {"stats", "name", "attacks", "flavor"}
         /\ running = r
         /\ Outputs(rng, 3) # {}

\* C6: a prompt without keywords is classified beast, Fire, ["physical"],
\* multiplier 1.0, and synthesis goes on, with no error outcome, to a full
\* card
C6_Defaults ==
    \A r \in Reqs : (prompt[r] \in PlainPrompts /\ pc[r] # "absent") =>
        /\ pc[r] \in {"call", "vision_wait", "stats", "name", "attacks",
                      "flavor", "done"}
        /\ pc[r] # "done" => CanStep(r)
        /\ Analysed(r) =>
              /\ analysis[r].creature_characteristics.creature_type = "beast"
              /\ analysis[r].detected_element = "Fire"
              /\ analysis[r].creature_characteristics.combat_styles = <<"physical">>
              /\ analysis[r].apparent_power_level = 10
        /\ pc[r] = "done" =>
              /\ card[r].name # ""
              /\ card[r].hp \in 20..150
              /\ card[r].type = "Fire"
              /\ card[r].rarity \in {Rarities[i] : i \in 1..Len(Rarities)}
              /\ card[r].flavorText # ""
              /\ Len(card[r].attacks) = 2

\* C6 witness: Scenario 2, the card of "xyz qqq"
C6_Witness ==
    /\ pc[1] = "done"
    /\ prompt[1] = <<"xyz", "qqq">>
    /\ card[1].type = "Fire"
    /\ card[1].attacks[1].name = "Strike"

\* The size keywords listed before "massive"
BeforeMassive ==
    {SizeIndicators[i][1] : i \in 1..6}

\* The prompts of Scenario 3
Scenario3Prompts ==
    {p \in Prompts :
        /\ Contains(PromptLower(p), "legendary ancient massive dragon")
        /\ Len(p) >= 7
        /\ \A k \in BeforeMassive : ~Contains(PromptLower(p), k)}

\* C7: a prompt of 7 or more words with "legendary ancient massive dragon"
\* and no size keyword listed before "massive" has complexity word count + 2,
\* multiplier 1.8, a rarity score of at least 12 and rarity Legendary
C7_Scenario3 ==
    \A r \in Reqs : (Analysed(r) /\ prompt[r] \in Scenario3Prompts) =>
        /\ analysis[r].complexity_score = Len(prompt[r]) + 2
        /\ analysis[r].apparent_power_level = 18
        /\ ScoreOf(r) >= 120
        /\ HasStats(r) => card[r].rarity = "Legendary"

\* C7 witness: a Legendary card of a prompt where "ancient" and "giant" stand
\* around the phrase
C7_Witness ==
    /\ pc[1] = "done"
    /\ prompt[1] = <<"an", "ancient", "or", "legendary", "ancient", "massive",
                     "dragon", "giant">>
    /\ card[1].rarity = "Legendary"

\* The elements of whose keywords text contains one
ElementsIn(text) ==
    {i \in 1..Len(ElementKeywords) :
        \E k \in 1..Len(ElementKeywords[i][2]) :
            Contains(text, ElementKeywords[i][2][k])}

\* The earliest element of the table each prompt with keywords of two or
\* more elements contains
EarliestElement ==
    LET Several == {p \in Prompts : Cardinality(ElementsIn(PromptLower(p))) >= 2}
    IN  [p \in Several |->
            LET hits == ElementsIn(PromptLower(p))
            IN  CHOOSE i \in hits : \A j \in hits : i <= j]

\* C8: of the elements whose keywords a prompt contains the one earliest in
\* the table is detected; "a tiny fire dragon" gives Fire, 0.3 and dragon
C8_FirstElement ==
    \A r \in Reqs : Analysed(r) =>
        /\ prompt[r] \in DOMAIN EarliestElement =>
              analysis[r].detected_element = ElementNames[EarliestElement[prompt[r]]]
        /\ prompt[r] = <<"a", "tiny", "fire", "dragon">> =>
              /\ analysis[r].detected_element = "Fire"
              /\ analysis[r].apparent_power_level = 3
              /\ analysis[r].creature_characteristics.creature_type = "dragon"

\* C8 witness: "shadow ice" is Water though "shadow" comes first
C8_Witness ==
    /\ pc[1] = "done"
    /\ prompt[1] = <<"shadow", "ice">>
    /\ card[1].type = "Water"

UtilityNames == {"Regenerate", "Fortify", "Power Up"}

\* C9: an attack has damage 0 exactly when it is a utility action; the first
\* attack has damage >= 15 and is no utility action; the second is a utility
\* action of damage 0 (Regenerate restoring hp // 5) or has damage >= 10
C9_UtilityDamage ==
    \A r \in Reqs : HasAttacks(r) =>
        LET a1 == card[r].attacks[1]
            a2 == card[r].attacks[2]
        IN  /\ \A i \in 1..2 : (card[r].attacks[i].damage = 0)
                                  <=> (card[r].attacks[i].name \in UtilityNames)
            /\ a1.damage >= 15
            /\ a1.name \notin UtilityNames
            /\ \/ /\ a2.name \in UtilityNames
                  /\ a2.damage = 0
                  /\ a2.name = "Regenerate" =>
                        a2.description = "Restores " \o ToString(card[r].hp \div 5) \o " HP"
               \/ /\ a2.name \notin UtilityNames
                  /\ a2.damage >= 10

\* C9 witness: a card of hp 108 whose second attack restores 21 HP
C9_Witness ==
    /\ pc[1] = "done"
    /\ card[1].hp = 108
    /\ card[1].attacks[2] = Attack("Regenerate", 0, "Restores 21 HP")

\* The list the first attack is to come from
PrimaryList(element, style) ==
    IF style \in DOMAIN AttackTemplates[element] THEN AttackTemplates[element][style]
    ELSE IF "physical" \in DOMAIN AttackTemplates[element]
         THEN AttackTemplates[element]["physical"]
         ELSE << <<"Strike", 30, "Basic attack">> >>

\* C10: the first attack is a template of the element's list for
\* combat_styles[0], else of the element's physical list, else the generic
\* Strike, with damage max(15, floor(base_damage * m)), m by rarity
C10_PrimaryAttack ==
    \A r \in Reqs : HasAttacks(r) =>
        LET a1 == card[r].attacks[1]
            m == [Common |-> 9, Uncommon |-> 10, Rare |-> 11, Epic |-> 12,
                  Legendary |-> 13][card[r].rarity]
            list == PrimaryList(analysis[r].detected_element,
                                analysis[r].creature_characteristics.combat_styles[1])
        IN  \E i \in 1..Len(list) :
                /\ a1.name = list[i][1]
                /\ a1.damage = Max(15, (list[i][2] * m) \div 10)
                /\ a1.description = list[i][3]

\* C10 witness: an Earth card of first style fire, which Earth has no list
\* for, opens with Boulder Throw of the physical list
C10_Witness ==
    /\ pc[1] = "done"
    /\ card[1].type = "Earth"
    /\ analysis[1].creature_characteristics.combat_styles[1] = "fire"
    /\ card[1].rarity = "Legendary"
    /\ card[1].attacks[1] = Attack("Boulder Throw", 58, "Hurls massive rocks")

\* The combat styles of request r, and the style its secondary branch uses:
\* combat_styles[1], or "magic" when one style was detected
StylesOf(r) == analysis[r].creature_characteristics.combat_styles
NextStyle(r) == SecondaryStyles(StylesOf(r))[1]

\* The second attack of request r's card is offensive
Offensive(r) == HasAttacks(r) /\ card[r].attacks[2].damage # 0

\* Attack a is a template of list
FromList(a, list) ==
    \E i \in 1..Len(list) : a.name = list[i][1] /\ a.description = list[i][3]

\* C11: an offensive second attack is a template of the element's list for
\* the next combat style (combat_styles[1], or "magic"), else of the
\* element's physical list, else the generic Strike, with damage
\* max(10, floor(base_damage * m * 0.8))
C11_SecondaryLookup ==
    \A r \in Reqs : Offensive(r) =>
        LET a2 == card[r].attacks[2]
            m == DamageMultiplier[card[r].rarity]
            list == PrimaryList(analysis[r].detected_element, NextStyle(r))
        IN  \E i \in 1..Len(list) :
                /\ a2.name = list[i][1]
                /\ a2.damage = Max(10, (list[i][2] * m * 8) \div 100)
                /\ a2.description = list[i][3]

\* C12: an offensive second attack deals no more damage than the first
\* attack of its card
C12_WeakerFollowUp ==
    \A r \in Reqs : Offensive(r) =>
        card[r].attacks[2].damage <= card[r].attacks[1].damage

\* C13: an offensive second attack is selected with a style other than
\* combat_styles[0] and is not a template of the primary attack's list, so
\* the two attacks of a card are different templates
C13_OtherStyle ==
    \A r \in Reqs : Offensive(r) =>
        /\ NextStyle(r) # StylesOf(r)[1]
        /\ ~FromList(card[r].attacks[2],
                     PrimaryList(analysis[r].detected_element, StylesOf(r)[1]))
        /\ card[r].attacks[2].name # card[r].attacks[1].name

====
